---- MODULE Spec2Model ----
(***************************************************************************)
(* Lemmatizer (flair/models/lemmatizer_model.py): the character index      *)
(* matrices built by words_to_char_indices and the beam search of predict, *)
(* in its batched and its token-by-token form.                             *)
(*                                                                         *)
(* The decoder network is a deterministic function of its learned          *)
(* parameters: a recurrent state update (RnnStep) followed by an output    *)
(* layer.  The output layer is the table self.theta, which gives for every *)
(* recurrent state one of the distributions of DistTable; Init draws the   *)
(* table from all tables.  Log-probabilities are integers, a normalised    *)
(* score or loss is the fraction [num, den].                               *)
(***************************************************************************)
EXTENDS Integers, Sequences, FiniteSets, TLC

VARIABLES
    self,                    \* the Lemmatizer object: its fields
    labels,                  \* token -> the labels it carries under label_name
    pc,                      \* position of the caller / of predict
    sentences,               \* predict: the sentences left after filtering
    return_loss,             \* predict: the argument
    max_length,              \* predict: local
    overall_loss,            \* predict: local
    number_tokens_in_total,  \* predict: local
    target,                  \* predict: the target matrix (return_loss)
    tok,                     \* token-by-token decoding: index of the token
    iter,                    \* the loop variable j (batched) or i (token-wise)
    live,                    \* the live hypotheses (sequences/scores/hidden/losses)
    final_candidates,        \* per token of the batch: finalized hypotheses
    output_sequences,        \* per token of the batch: the selected hypothesis
    result,                  \* what predict returned
    alone_lemma,             \* token -> lemma predicted when it was the only input
    wargs,                   \* words_to_char_indices: the arguments
    tensor,                  \* words_to_char_indices: the matrix returned
    char_dictionary,         \* the Dictionary object: add_unk and idx2item
    ctor_args                \* the arguments the constructor was called with

vars == <<self, labels, pc, sentences, return_loss, max_length, overall_loss,
          number_tokens_in_total, target, tok, iter, live,
          final_candidates, output_sequences, result, alone_lemma, wargs, tensor,
          char_dictionary, ctor_args>>

predict_locals == <<max_length, overall_loss, number_tokens_in_total,
                    target, tok, iter, live, final_candidates,
                    output_sequences>>

(***************************************************************************)
(* Bounds                                                                  *)
(***************************************************************************)
MaxBeam == 2        \* beam_size ranges over 1..MaxBeam
MaxSeqLen == 2      \* max_sequence_length ranges over 1..MaxSeqLen
NumHidden == 3      \* number of recurrent states of the decoder
MaxBeamFirst == 3   \* beam_size ranges over 1..MaxBeamFirst in SpecFirst
MaxWordLen == 2     \* longest string handed to words_to_char_indices
MaxWords == 2       \* most strings handed to words_to_char_indices
MaxRowLen == 4      \* largest seq_length handed to words_to_char_indices
MaxDictItems == 3   \* most items added to a dictionary before the constructor gets it

(***************************************************************************)
(* The character dictionary                                                *)
(***************************************************************************)
unk_index == 0
dummy_index == 1
start_index == 2
end_index == 3

\* the items in index order: <unk>, the three special symbols, the letters
Items == <<"<unk>", "<>", "<S>", "<E>", "a", "b">>

Letters == {"a", "b"}

\* len(char_dictionary): a dictionary without letters, or with Letters
VocabSizes == {4, Len(Items)}

get_idx_for_item(item, vocab_size) ==
    IF \E i \in 1..vocab_size : Items[i] = item
    THEN (CHOOSE i \in 1..vocab_size : Items[i] = item) - 1
    ELSE unk_index

get_item_for_index(idx) == Items[idx + 1]

\* Dictionary(add_unk): a new dictionary, <unk> its first item when add_unk
Dictionary(add_unk) ==
    [add_unk |-> add_unk, idx2item |-> IF add_unk THEN <<"<unk>">> ELSE <<>>]

has_item(d, item) == \E i \in 1..Len(d.idx2item) : d.idx2item[i] = item

\* the dictionary after Dictionary.add_item(item): item appended if absent
add_item(d, item) ==
    IF has_item(d, item) THEN d ELSE [d EXCEPT !.idx2item = Append(@, item)]

\* the index Dictionary.add_item(item) returns, d the dictionary after it
index_of_item(d, item) ==
    (CHOOSE i \in 1..Len(d.idx2item) : d.idx2item[i] = item) - 1

RECURSIVE add_items(_, _)
add_items(d, items) ==
    IF items = <<>> THEN d ELSE add_items(add_item(d, Head(items)), Tail(items))

\* the dictionary create_char_dict_from_corpus gives, len(dictionary) = v
DictionaryOfSize(v) == add_items(Dictionary(TRUE), SubSeq(Items, 2, v))

(***************************************************************************)
(* Small helpers                                                           *)
(***************************************************************************)
B2I(b) == IF b THEN 1 ELSE 0

Max2(a, b) == IF a >= b THEN a ELSE b

MaxOf(S) == CHOOSE m \in S : \A x \in S : x <= m

Last(s) == s[Len(s)]

\* the sequence s with its entries evaluated (TLC keeps [i \in 1..n |-> e] lazy)
Tuple(s) == s \o <<>>

RECURSIVE SetToSeq(_)
SetToSeq(S) ==
    IF S = {} THEN <<>>
    ELSE LET m == CHOOSE x \in S : \A y \in S : x <= y
         IN <<m>> \o SetToSeq(S \ {m})

RECURSIVE Flatten(_)
Flatten(ss) == IF ss = <<>> THEN <<>> ELSE Head(ss) \o Flatten(Tail(ss))

(***************************************************************************)
(* words_to_char_indices.  seq_length = 0 stands for None: the code tests   *)
(* "not seq_length".  Row i, column k of the tensor is tensor[i][k + 1].   *)
(***************************************************************************)
\* RowOf with the start symbol in column 0 whatever the shift
RowOfStartInFront(token, c, sequence_length, end_symbol, start_symbol, padding_in_front, vocab_size) ==
    LET dif == sequence_length - (Len(token) + c)
        shift == IF padding_in_front THEN dif ELSE 0
    IN [k1 \in 1..sequence_length |->
          LET k == k1 - 1
              index == k - B2I(start_symbol) - shift
          IN IF index >= 0 /\ index < Len(token)
             THEN get_idx_for_item(token[index + 1], vocab_size)
             ELSE IF end_symbol /\ k = Len(token) + B2I(start_symbol) + shift
             THEN end_index
             ELSE IF start_symbol /\ k = 0
             THEN start_index
             ELSE dummy_index]

RowOf(token, c, sequence_length, end_symbol, start_symbol, padding_in_front, vocab_size) ==
    LET dif == sequence_length - (Len(token) + c)
        shift == IF padding_in_front THEN dif ELSE 0
    IN [k1 \in 1..sequence_length |->
          LET k == k1 - 1
              index == k - B2I(start_symbol) - shift
          IN \* the writes of lines 172-177, the last one wins
             IF index >= 0 /\ index < Len(token)
             THEN get_idx_for_item(token[index + 1], vocab_size)
             ELSE IF end_symbol /\ k = Len(token) + B2I(start_symbol) + shift
             THEN end_index
             ELSE IF start_symbol /\ k = 0 + shift
             THEN start_index
             ELSE dummy_index]

\* words_to_char_indices taking seq_length, when given, as the row length
words_to_char_indices_as_given(tokens, end_symbol, start_symbol, padding_in_front, seq_length, vocab_size) ==
    LET c == B2I(end_symbol) + B2I(start_symbol)
        maxlen == MaxOf({Len(tokens[i]) : i \in 1..Len(tokens)}) + c
        sequence_length == IF seq_length = 0 THEN maxlen ELSE seq_length
    IN [i \in 1..Len(tokens) |->
          RowOf(tokens[i], c, sequence_length, end_symbol, start_symbol,
                padding_in_front, vocab_size)]

words_to_char_indices(tokens, end_symbol, start_symbol, padding_in_front, seq_length, vocab_size) ==
    LET c == B2I(end_symbol) + B2I(start_symbol)
        maxlen == MaxOf({Len(tokens[i]) : i \in 1..Len(tokens)}) + c
        sequence_length == IF seq_length = 0 THEN maxlen
                           ELSE Max2(seq_length, maxlen)
    IN [i \in 1..Len(tokens) |->
          RowOf(tokens[i], c, sequence_length, end_symbol, start_symbol,
                padding_in_front, vocab_size)]

(***************************************************************************)
(* Sentences and tokens handed to predict: token -> text, gold lemma (the  *)
(* empty string when the token has no label), and sentence -> tokens.      *)
(***************************************************************************)
TokenText == << <<"a">>, <<"a", "b">> >>

TokenGold == << <<>>, <<"a">> >>

SentenceDef == << <<>>, <<1>>, <<2>> >>

Tokens == 1..Len(TokenText)

\* the inputs of predict: lists of distinct sentences
Inputs == {SetToSeq(S) : S \in SUBSET (1..Len(SentenceDef))}

TokensOf(sents) == Flatten([i \in 1..Len(sents) |-> SentenceDef[sents[i]]])

(***************************************************************************)
(* Scores.  A probability that softmax produced is kept as its (integer)   *)
(* log-probability; Masked is the entry -1 written over the padding and    *)
(* the start symbol, below every probability, and its logarithm is NaN.    *)
(* torch orders NaN above every number.                                    *)
(***************************************************************************)
Masked == -1000
NegInf == -100000
NaN == 100000

Log(p) == IF p = Masked THEN NaN ELSE p

Add(x, y) ==
    IF x = NaN \/ y = NaN THEN NaN
    ELSE IF x = NegInf \/ y = NegInf THEN NegInf
    ELSE x + y

\* x / n
Div(x, n) == [num |-> x, den |-> n]

Zero == [num |-> 0, den |-> 1]

RatAdd(a, b) == [num |-> a.num * b.den + b.num * a.den, den |-> a.den * b.den]

RatEq(a, b) == a.num * b.den = b.num * a.den

\* a < b, for fractions of positive denominator; NegInf and NaN as in Add
RatLess(a, b) ==
    IF a.num \in {NaN, NegInf} \/ b.num \in {NaN, NegInf}
    THEN a.num # b.num /\ (a.num = NegInf \/ b.num = NaN)
    ELSE a.num * b.den < b.num * a.den

RECURSIVE DenProduct(_)
DenProduct(rs) == IF rs = <<>> THEN 1 ELSE Head(rs).den * DenProduct(Tail(rs))

RatKeysOf(r, P) ==
    Tuple([i \in 1..Len(r) |->
             IF r[i].num \in {NaN, NegInf} THEN r[i].num
             ELSE r[i].num * (P \div r[i].den)])

DenProductOf(r) == DenProduct(r)

RatKeysOfTuple(r) == RatKeysOf(r, DenProductOf(r))

\* integers ordered as the fractions rs are
RatKeys(rs) == RatKeysOfTuple(Tuple(rs))

(***************************************************************************)
(* topk and sorted.  torch.topk returns the k largest entries in           *)
(* descending order and leaves the order of equal entries open: ties is    *)
(* the rule of the build, "low" (lower index first) or "high".  Python's   *)
(* sorted(reverse=True) is stable: equal keys keep their order.            *)
(***************************************************************************)
Better(vals, ties, a, b) ==
    \/ vals[a] > vals[b]
    \/ vals[a] = vals[b] /\ (IF ties = "low" THEN a < b ELSE a > b)

\* the number of entries of v that come before entry a
Rank(v, ties, a) == Cardinality({b \in 1..Len(v) : Better(v, ties, b, a)})

RankAll(v, ties) == Tuple([a \in 1..Len(v) |-> Rank(v, ties, a)])

PickRanked(rank, k) ==
    Tuple([n \in 1..k |-> CHOOSE a \in 1..Len(rank) : rank[a] = n - 1])

TopKOf(v, k, ties) == PickRanked(RankAll(v, ties), k)

\* positions (from 1) of the k largest entries of vals, largest first
topk(vals, k, ties) == TopKOf(Tuple(vals), k, ties)

\* positions of keys in the order sorted(..., reverse=True) puts them
sorted_reverse(keys) == topk(keys, Len(keys), "low")

(***************************************************************************)
(* The networks.  A distribution gives every index of the dictionary its   *)
(* log-probability (entry idx + 1).                                        *)
(***************************************************************************)
DistTable == <<
    <<-4, -5, -6, -2, -1, -3>>,     \* a, <E>, b, <unk>
    <<-3, -5, -6, -1, -2, -4>>,     \* <E>, a, <unk>, b
    <<-4, -1, -2, -6, -5, -3>>,     \* <>, <S>, b, <unk>, a, <E>
    <<-1, -3, -4, -5, -6, -2>> >>   \* <unk>, b, <>, <S>, <E>, a

LogP(dist, idx) == DistTable[dist][idx + 1]

\* nn.CrossEntropyLoss of one output vector against one target index
CrossEntropy(dist, idx) == 0 - LogP(dist, idx)

HiddenStates == 0..(NumHidden - 1)

Thetas == [HiddenStates -> 1..Len(DistTable)]

\* encoder_rnn over the characters of one word: its final hidden state
EncodeWord(text, vocab_size) ==
    LET idx == [i \in 1..Len(text) |-> get_idx_for_item(text[i], vocab_size)]
        F[i \in 0..Len(text)] ==
            IF i = 0 THEN start_index % NumHidden
            ELSE (2 * F[i - 1] + idx[i]) % NumHidden
    IN F[Len(text)]

\* emb_to_hidden, the projection that encode() applies to the encoder state
emb_to_hidden(h) == (h + 1) % NumHidden

\* decoder_rnn: one step on one input character
RnnStep(hidden, input_index) == (2 * hidden + input_index + 1) % NumHidden

\* number of rows of all_encoder_outputs that attention sums over for a word
\* encoded together with texts (pad_packed_sequence pads to the longest)
EncoderRows(texts, me) ==
    MaxOf({Len(texts[i]) + B2I(me.start_symbol) + B2I(me.end_symbol)
             : i \in 1..Len(texts)})

\* decode(): the recurrent step, attention over the rows of the encoder
\* output (zero rows of padding included in the softmax), the output layer
decode(input_index, hidden, rows, me) ==
    LET h == RnnStep(hidden, input_index)
        key == IF me.use_attention THEN (h + rows) % NumHidden ELSE h
    IN [hid |-> h, dist |-> me.theta[key]]

\* out_probs after the two assignments of -1
out_probs(dist, vocab_size) ==
    [i \in 1..vocab_size |->
        IF i - 1 \in {dummy_index, start_index} THEN Masked
        ELSE LogP(dist, i - 1)]

\* out_probs.topk(beam_size) and torch.log: the candidates of one hypothesis
TopCandidates(dist, beam_size, topk_ties, vocab_size) ==
    LET probs == out_probs(dist, vocab_size)
        leading == topk(probs, beam_size, topk_ties)
    IN [k \in 1..beam_size |->
          [index |-> leading[k] - 1, logp |-> Log(probs[leading[k]])]]

\* the candidates of every distribution under every setting
CandidateTable ==
    [d \in 1..Len(DistTable), b \in 1..Len(Items), t \in {"low", "high"},
     v \in VocabSizes |-> IF b <= v THEN TopCandidates(d, b, t, v) ELSE <<>>]

Candidates(dist, me) ==
    CandidateTable[dist, me.beam_size, me.topk_ties, me.vocab_size]

(***************************************************************************)
(* The beam search of predict.  A live hypothesis is                       *)
(* [seq, hid, score, loss]: a row of sequences, hidden_states_beam, scores *)
(* and losses (batched), or a candidate list (token by token).  A          *)
(* finalized hypothesis is the tuple [seq, score, loss].                   *)
(***************************************************************************)

\* the gold lemma of a token, empty or not
LabelOfGold(t) == TokenGold[t]

\* the label of a token used as target: its gold lemma, or else its text
LabelOf(t) == IF TokenGold[t] # <<>> THEN TokenGold[t] ELSE TokenText[t]

\* the target matrix of the tokens toks
TargetOf(toks, maxlen, me) ==
    words_to_char_indices([i \in 1..Len(toks) |-> LabelOf(toks[i])],
                          TRUE, FALSE, FALSE, maxlen, me.vocab_size)

\* the first pass keeping the start symbol in front of the first character
FirstHypothesesWithStart(hidden, rows, tgt0, rl, me) ==
    LET d == decode(start_index, hidden, rows, me)
        leading_indices == Candidates(d.dist, me)
    IN [k \in 1..me.beam_size |->
          [seq |-> <<start_index, leading_indices[k].index>>,
           hid |-> d.hid,
           score |-> leading_indices[k].logp,
           loss |-> IF rl THEN CrossEntropy(d.dist, tgt0) ELSE 0]]

\* the first pass: the start symbol through the decoder, the beam_size best
\* characters; tgt0 is the first target character, rl is return_loss
FirstHypotheses(hidden, rows, tgt0, rl, me) ==
    LET d == decode(start_index, hidden, rows, me)
        leading_indices == Candidates(d.dist, me)
    IN [k \in 1..me.beam_size |->
          [seq |-> <<leading_indices[k].index>>,
           hid |-> d.hid,
           score |-> leading_indices[k].logp,
           loss |-> IF rl THEN CrossEntropy(d.dist, tgt0) ELSE 0]]

\* one decoder step of every live hypothesis and its beam_size candidates
Expansion(lv, rows, me) ==
    Tuple([p \in 1..Len(lv) |->
        LET d == decode(Last(lv[p].seq), lv[p].hid, rows, me)
        IN [hid |-> d.hid, dist |-> d.dist, cand |-> Candidates(d.dist, me)]])

\* FinalCandidate normalising by the length without the end symbol
FinalCandidateByLength(parent, logp, step_loss) ==
    [seq |-> parent.seq,
     score |-> Div(Add(parent.score, logp), Len(parent.seq)),
     loss |-> Div(parent.loss + step_loss, Len(parent.seq))]

\* the hypothesis set aside when a candidate of parent is the end symbol
FinalCandidate(parent, logp, step_loss) ==
    [seq |-> parent.seq,
     score |-> Div(Add(parent.score, logp), Len(parent.seq) + 1),
     loss |-> Div(parent.loss + step_loss, Len(parent.seq) + 1)]

\* the candidate written over the last character of parent
ContinuationInPlace(parent, hid, index, logp, step_loss) ==
    [seq |-> SubSeq(parent.seq, 1, Len(parent.seq) - 1) \o <<index>>,
     hid |-> hid,
     score |-> Add(parent.score, logp),
     loss |-> parent.loss + step_loss]

\* the hypothesis that continues parent by the candidate (index, logp)
Continuation(parent, hid, index, logp, step_loss) ==
    [seq |-> parent.seq \o <<index>>,
     hid |-> hid,
     score |-> Add(parent.score, logp),
     loss |-> parent.loss + step_loss]

\* FallbackCandidate normalising as FinalCandidate does, by the length + 1
FallbackLikeFinal(h, maxlen) ==
    [seq |-> h.seq, score |-> Div(h.score, Len(h.seq) + 1),
     loss |-> Div(h.loss, Len(h.seq) + 1)]

\* the final candidate made of a hypothesis for which no <E> was predicted
FallbackCandidate(h, maxlen) ==
    [seq |-> h.seq, score |-> Div(h.score, maxlen), loss |-> Div(h.loss, maxlen)]

\* BestFinal by a sort that is not stable: the last of the equal ones
BestFinalLastOfEqual(l) ==
    l[topk(RatKeys([k \in 1..Len(l) |-> l[k].score]), Len(l), "high")[1]]

\* sorted(l, key=score, reverse=True)[0]
BestFinal(l) ==
    l[sorted_reverse(RatKeys([k \in 1..Len(l) |-> l[k].score]))[1]]

\* the string built from the indices of a sequence, item by item
PredictedLemma(seq) == [k \in 1..Len(seq) |-> get_item_for_index(seq[k])]

\* remove_labels that removes nothing
keep_labels(lab, toks) == lab

\* token.remove_labels(label_name) for the tokens toks
remove_labels(lab, toks) ==
    [t \in DOMAIN lab |->
        IF \E i \in 1..Len(toks) : toks[i] = t THEN <<>> ELSE lab[t]]

\* token.add_tag(label_name, lemma)
add_tag(lab, t, lemma) == [lab EXCEPT ![t] = Append(@, lemma)]

\* the row counted inside the block of the token
BeamNumberInBlock(i, index, beam_size) == index \div beam_size

\* beam = i * beam_size + index // beam_size (i, index, beam from 0)
BeamNumber(i, index, beam_size) == i * beam_size + (index \div beam_size)

\* the token a row of the flattened tensors belongs to (row, token from 0)
TokenNumber(row, beam_size) == row \div beam_size

\* the pair (row, candidate) number q of an expansion, counted row by row
RowOfPair(q, B) == ((q - 1) \div B) + 1

ColOfPair(q, B) == ((q - 1) % B) + 1

IsEndPair(ex, q, B) == ex[RowOfPair(q, B)].cand[ColOfPair(q, B)].index = end_index

\* the pairs whose candidate is <E>, in the order the loops visit them
EndPairs(ex, B) ==
    SelectSeq([q \in 1..(Len(ex) * B) |-> q], LAMBDA q : IsEndPair(ex, q, B))

\* the other pairs
OtherPairs(ex, B) ==
    SelectSeq([q \in 1..(Len(ex) * B) |-> q], LAMBDA q : ~IsEndPair(ex, q, B))

\* those of pairs whose row belongs to token i (from 1)
PairsOfToken(pairs, i, B) ==
    SelectSeq(pairs, LAMBDA q : TokenNumber(RowOfPair(q, B) - 1, B) + 1 = i)

\* the loss of one output against column col (from 0) of row i of the target
StepLoss(dist, tgt, i, col, rl) ==
    IF rl THEN CrossEntropy(dist, tgt[i][col + 1]) ELSE 0

\* the hypotheses set aside for pairs; i is the row of the target
NewFinals(lv, ex, pairs, B, tgt, i, col, rl) ==
    [n \in 1..Len(pairs) |->
        FinalCandidate(lv[RowOfPair(pairs[n], B)],
                       ex[RowOfPair(pairs[n], B)].cand[ColOfPair(pairs[n], B)].logp,
                       StepLoss(ex[RowOfPair(pairs[n], B)].dist, tgt, i, col, rl))]

\* log_probabilities as torch.log gave them
LogProbabilitiesAsGiven(ex, B) ==
    Tuple([p \in 1..Len(ex) |-> Tuple([c \in 1..B |-> ex[p].cand[c].logp])])

\* batched: log_probabilities after the assignments of -inf
LogProbabilities(ex, B) ==
    Tuple([p \in 1..Len(ex) |-> Tuple([c \in 1..B |->
        IF ex[p].cand[c].index = end_index THEN NegInf ELSE ex[p].cand[c].logp])])

\* batched: row i (from 1) of hypothesis_scores_per_token
HypothesisScores(lv, lp, i, B) ==
    [m \in 1..(B * B) |->
        Add(lv[(i - 1) * B + ((m - 1) \div B) + 1].score,
            lp[(i - 1) * B + ((m - 1) \div B) + 1][((m - 1) % B) + 1])]

\* for every parent its own best candidate
IndicesPerParent(lv, lp, number_tokens, B, ties) ==
    Tuple([i \in 1..number_tokens |->
        Tuple([l \in 1..B |->
            (l - 1) * B + topk(lp[(i - 1) * B + l], 1, ties)[1] - 1])])

\* batched: indices_per_token, the positions counted from 0
IndicesPerToken(lv, lp, number_tokens, B, ties) ==
    Tuple([i \in 1..number_tokens |->
        Tuple([l \in 1..B |->
            topk(HypothesisScores(lv, lp, i, B), B, ties)[l] - 1])])

\* batched: row q (from 1) of the tensors of the next iteration
NextRow(lv, ex, lp, ipt, q, B, tgt, col, rl) ==
    Continuation(
        lv[BeamNumber(TokenNumber(q - 1, B),
                      ipt[TokenNumber(q - 1, B) + 1][((q - 1) % B) + 1], B) + 1],
        ex[BeamNumber(TokenNumber(q - 1, B),
                      ipt[TokenNumber(q - 1, B) + 1][((q - 1) % B) + 1], B) + 1].hid,
        ex[BeamNumber(TokenNumber(q - 1, B),
                      ipt[TokenNumber(q - 1, B) + 1][((q - 1) % B) + 1], B) + 1]
          .cand[(ipt[TokenNumber(q - 1, B) + 1][((q - 1) % B) + 1] % B) + 1].index,
        lp[BeamNumber(TokenNumber(q - 1, B),
                      ipt[TokenNumber(q - 1, B) + 1][((q - 1) % B) + 1], B) + 1]
          [(ipt[TokenNumber(q - 1, B) + 1][((q - 1) % B) + 1] % B) + 1],
        StepLoss(
            ex[BeamNumber(TokenNumber(q - 1, B),
                          ipt[TokenNumber(q - 1, B) + 1][((q - 1) % B) + 1], B) + 1].dist,
            tgt, TokenNumber(q - 1, B) + 1, col, rl))

\* token by token: new_sequences, the continuations by the other pairs
NewSequences(lv, ex, others, B, tgt, col, rl) ==
    Tuple([n \in 1..Len(others) |->
        Continuation(lv[RowOfPair(others[n], B)],
                     ex[RowOfPair(others[n], B)].hid,
                     ex[RowOfPair(others[n], B)].cand[ColOfPair(others[n], B)].index,
                     ex[RowOfPair(others[n], B)].cand[ColOfPair(others[n], B)].logp,
                     StepLoss(ex[RowOfPair(others[n], B)].dist, tgt, 1, col, rl))])

\* the sorted sequences, all of them kept
AllSequences(new_sequences, order, B) ==
    [k \in 1..Len(new_sequences) |-> new_sequences[order[k]]]

\* token by token: seq_sorted[:beam_size], order being the sorted positions
TopSequences(new_sequences, order, B) ==
    [k \in 1..(IF Len(new_sequences) < B THEN Len(new_sequences) ELSE B) |->
        new_sequences[order[k]]]

(***************************************************************************)
(* predict, entry: lines 327-348                                           *)
(***************************************************************************)
Predict(input, rl) ==
    /\ pc = "idle"
    /\ LET batching == IF self.beam_size = 1 THEN FALSE ELSE self.batching_in_rnn
           nonempty == SelectSeq(input, LAMBDA s : Len(SentenceDef[s]) > 0)
           toks == TokensOf(nonempty)
       IN /\ self' = [self EXCEPT !.batching_in_rnn = batching]
          /\ sentences' = nonempty
          /\ return_loss' = rl
          /\ IF Len(nonempty) = 0
             THEN /\ pc' = "returned"
                  /\ result' = [kind |-> "sentences", loss |-> Zero, count |-> 0]
                  /\ UNCHANGED predict_locals
             ELSE /\ max_length' =
                        IF ~self.dependent_on_input THEN self.max_sequence_length
                        ELSE MaxOf({Len(TokenText[toks[i]]) + 1 : i \in 1..Len(toks)})
                  /\ overall_loss' = Zero
                  /\ number_tokens_in_total' = 0
                  /\ pc' = IF batching THEN "batch_first" ELSE "tok_first"
                  /\ tok' = 1
                  /\ UNCHANGED <<target, iter, live, final_candidates,
                                 output_sequences, result>>
    /\ UNCHANGED <<labels, alone_lemma, wargs, char_dictionary, ctor_args, tensor>>

(***************************************************************************)
(* Batched decoding                                                        *)
(***************************************************************************)
\* lines 361-421: labels removed, encoding, the first pass
BatchFirstStep ==
    /\ pc = "batch_first"
    /\ LET toks == TokensOf(sentences)
           number_tokens == Len(toks)
           B == self.beam_size
           texts == [i \in 1..number_tokens |-> TokenText[toks[i]]]
           rows == EncoderRows(texts, self)
           tgt == IF return_loss THEN TargetOf(toks, max_length, self) ELSE <<>>
           first == [i \in 1..number_tokens |->
                       FirstHypotheses(
                           emb_to_hidden(EncodeWord(texts[i], self.vocab_size)),
                           rows, IF return_loss THEN tgt[i][1] ELSE 0,
                           return_loss, self)]
       IN /\ labels' = remove_labels(labels, toks)
          /\ number_tokens_in_total' = number_tokens_in_total + number_tokens
          /\ target' = tgt
          /\ live' = [p \in 1..(number_tokens * B) |->
                         first[TokenNumber(p - 1, B) + 1][((p - 1) % B) + 1]]
          /\ final_candidates' = [i \in 1..number_tokens |-> <<>>]
    /\ iter' = 1
    /\ output_sequences' = <<>>
    /\ pc' = "batch_expand"
    /\ UNCHANGED <<self, sentences, return_loss, max_length, overall_loss, tok,
                   result, alone_lemma, wargs, char_dictionary, ctor_args, tensor>>

\* lines 423-508: one iteration j of the loop
BatchExpand ==
    /\ pc = "batch_expand"
    /\ iter < max_length
    /\ \E number_tokens \in {Len(TokensOf(sentences))}, B \in {self.beam_size} :
       \E ex \in {Expansion(live, EncoderRows(
                     [i \in 1..number_tokens |-> TokenText[TokensOf(sentences)[i]]],
                     self), self)} :
       \E ended \in {EndPairs(ex, B)}, lp \in {LogProbabilities(ex, B)} :
       \E ipt \in {IndicesPerToken(live, lp, number_tokens, B, self.topk_ties)} :
          /\ final_candidates' =
                [i \in 1..number_tokens |->
                    final_candidates[i] \o
                    NewFinals(live, ex, PairsOfToken(ended, i, B), B, target, i,
                              iter, return_loss)]
          /\ live' =
                [q \in 1..(number_tokens * B) |->
                    NextRow(live, ex, lp, ipt, q, B, target, iter, return_loss)]
    /\ iter' = iter + 1
    /\ UNCHANGED <<self, labels, pc, sentences, return_loss, max_length,
                   overall_loss, number_tokens_in_total, target, tok,
                   output_sequences, result, alone_lemma, wargs, char_dictionary, ctor_args, tensor>>

\* the best live hypothesis of token i (from 1): scores.view(...).topk(1, 1)
BestLive(lv, i, B, ties) ==
    lv[(i - 1) * B + topk([k \in 1..B |-> lv[(i - 1) * B + k].score], 1, ties)[1]]

\* lines 510-520: a final candidate for every token that has none
BatchFallback ==
    /\ pc = "batch_expand"
    /\ iter >= max_length
    /\ final_candidates' =
          [i \in DOMAIN final_candidates |->
              IF Len(final_candidates[i]) = 0
              THEN <<FallbackCandidate(
                       BestLive(live, i, self.beam_size, self.topk_ties),
                       max_length)>>
              ELSE final_candidates[i]]
    /\ pc' = "batch_select"
    /\ UNCHANGED <<self, labels, sentences, return_loss, max_length,
                   overall_loss, number_tokens_in_total, target, tok, iter,
                   live, output_sequences, result, alone_lemma, wargs, char_dictionary, ctor_args, tensor>>

RECURSIVE LossSum(_)
LossSum(l) == IF l = <<>> THEN Zero ELSE RatAdd(Head(l).loss, LossSum(Tail(l)))

RECURSIVE TagAll(_, _, _)
TagAll(lab, toks, seqs) ==
    IF toks = <<>> THEN lab
    ELSE TagAll(add_tag(lab, Head(toks), PredictedLemma(Head(seqs).seq)),
                Tail(toks), Tail(seqs))

\* lines 522-538: the best final hypothesis of every token, its label
BatchSelect ==
    /\ pc = "batch_select"
    /\ \E best \in {Tuple([i \in DOMAIN final_candidates |->
                              BestFinal(final_candidates[i])])} :
          /\ output_sequences' = best
          /\ overall_loss' = RatAdd(overall_loss, LossSum(best))
          /\ labels' = TagAll(labels, TokensOf(sentences), best)
    /\ pc' = "return"
    /\ UNCHANGED <<self, sentences, return_loss, max_length,
                   number_tokens_in_total, target, tok, iter, live,
                   final_candidates, result, alone_lemma, wargs, char_dictionary, ctor_args, tensor>>

(***************************************************************************)
(* Decoding token by token (no batching in the RNN)                        *)
(***************************************************************************)
\* lines 553-628: one token: its labels removed, encoding, the first pass
TokenFirstStep ==
    /\ pc = "tok_first"
    /\ LET toks == TokensOf(sentences)
           t == toks[tok]
           tgt == IF return_loss THEN TargetOf(<<t>>, max_length, self) ELSE <<>>
       IN /\ labels' = remove_labels(labels, <<t>>)
          /\ target' = tgt
          /\ live' = FirstHypotheses(
                         EncodeWord(TokenText[t], self.vocab_size),
                         EncoderRows(<<TokenText[t]>>, self),
                         IF return_loss THEN tgt[1][1] ELSE 0, return_loss, self)
          /\ final_candidates' =
                IF tok = 1 THEN [i \in 1..Len(toks) |-> <<>>]
                ELSE [final_candidates EXCEPT ![tok] = <<>>]
          /\ output_sequences' = IF tok = 1 THEN <<>> ELSE output_sequences
    /\ number_tokens_in_total' = number_tokens_in_total + 1
    /\ iter' = 1
    /\ pc' = "tok_expand"
    /\ UNCHANGED <<self, sentences, return_loss, max_length, overall_loss, tok,
                   result, alone_lemma, wargs, char_dictionary, ctor_args, tensor>>

\* lines 631-695: one iteration i of the loop
TokenExpand ==
    /\ pc = "tok_expand"
    /\ iter < max_length
    /\ \E B \in {self.beam_size} :
       \E ex \in {Expansion(live,
                     EncoderRows(<<TokenText[TokensOf(sentences)[tok]]>>, self),
                     self)} :
       \E new_sequences \in {NewSequences(live, ex, OtherPairs(ex, B), B, target,
                                          iter, return_loss)} :
          /\ final_candidates' =
                [final_candidates EXCEPT ![tok] = @ \o
                    NewFinals(live, ex, EndPairs(ex, B), B, target, 1, iter,
                              return_loss)]
          /\ IF Len(new_sequences) = 0
             THEN /\ pc' = "tok_break"
                  /\ UNCHANGED <<live, iter>>
             ELSE /\ live' = TopSequences(
                                new_sequences,
                                sorted_reverse([n \in 1..Len(new_sequences) |->
                                                   new_sequences[n].score]),
                                B)
                  /\ iter' = iter + 1
                  /\ pc' = "tok_expand"
    /\ UNCHANGED <<self, labels, sentences, return_loss, max_length,
                   overall_loss, number_tokens_in_total, target, tok,
                   output_sequences, result, alone_lemma, wargs, char_dictionary, ctor_args, tensor>>

\* lines 697-702: a final candidate if the token has none
TokenFallback ==
    /\ \/ pc = "tok_expand" /\ iter >= max_length
       \/ pc = "tok_break"
    /\ final_candidates' =
          [final_candidates EXCEPT ![tok] =
              IF Len(@) = 0 THEN <<FallbackCandidate(live[1], max_length)>> ELSE @]
    /\ pc' = "tok_select"
    /\ UNCHANGED <<self, labels, sentences, return_loss, max_length,
                   overall_loss, number_tokens_in_total, target, tok, iter,
                   live, output_sequences, result, alone_lemma, wargs, char_dictionary, ctor_args, tensor>>

\* lines 704-718: the best final hypothesis of the token, its label
TokenSelect ==
    /\ pc = "tok_select"
    /\ \E toks \in {TokensOf(sentences)},
          best_sequence \in {BestFinal(final_candidates[tok])} :
          /\ output_sequences' = Append(output_sequences, best_sequence)
          /\ overall_loss' = RatAdd(overall_loss, best_sequence.loss)
          /\ labels' = add_tag(labels, toks[tok], PredictedLemma(best_sequence.seq))
          /\ IF tok < Len(toks)
             THEN tok' = tok + 1 /\ pc' = "tok_first"
             ELSE tok' = tok /\ pc' = "return"
    /\ UNCHANGED <<self, sentences, return_loss, max_length,
                   number_tokens_in_total, target, iter, live, final_candidates,
                   result, alone_lemma, wargs, char_dictionary, ctor_args, tensor>>

(***************************************************************************)
(* predict, exit: lines 720-724.  alone_lemma keeps, for the comparison of *)
(* calls, the lemma a token got in a call whose only token it was.         *)
(***************************************************************************)
Return ==
    /\ pc = "return"
    /\ result' = IF return_loss
                 THEN [kind |-> "pair", loss |-> overall_loss,
                       count |-> number_tokens_in_total]
                 ELSE [kind |-> "None", loss |-> Zero, count |-> 0]
    /\ alone_lemma' =
          LET toks == TokensOf(sentences)
          IN IF Len(toks) = 1
             THEN [alone_lemma EXCEPT ![toks[1]] = <<Last(labels[toks[1]])>>]
             ELSE alone_lemma
    /\ pc' = "returned"
    /\ UNCHANGED <<self, labels, sentences, return_loss, predict_locals, wargs, char_dictionary, ctor_args,
                   tensor>>

\* the caller goes on after a call: the locals of predict are gone
Again ==
    /\ pc = "returned"
    /\ pc' = "idle"
    /\ sentences' = <<>>
    /\ return_loss' = FALSE
    /\ max_length' = 0
    /\ overall_loss' = Zero
    /\ number_tokens_in_total' = 0
    /\ target' = <<>>
    /\ tok' = 1
    /\ iter' = 0
    /\ live' = <<>>
    /\ final_candidates' = <<>>
    /\ output_sequences' = <<>>
    /\ result' = [kind |-> "None", loss |-> Zero, count |-> 0]
    /\ UNCHANGED <<self, labels, alone_lemma, wargs, char_dictionary, ctor_args, tensor>>

\* the caller assigns beam_size between two calls
SetBeamSize(b) ==
    /\ pc = "idle"
    /\ b # self.beam_size
    /\ self' = [self EXCEPT !.beam_size = b]
    /\ alone_lemma' = [t \in Tokens |-> <<>>]
    /\ UNCHANGED <<labels, pc, sentences, return_loss, predict_locals, result,
                   wargs, char_dictionary, ctor_args, tensor>>

(***************************************************************************)
(* A call of words_to_char_indices on the arguments wargs                  *)
(***************************************************************************)
WordsToCharIndices ==
    /\ pc = "chars"
    /\ tensor' = words_to_char_indices(wargs.tokens, wargs.end_symbol,
                                       wargs.start_symbol, wargs.padding_in_front,
                                       wargs.seq_length, self.vocab_size)
    /\ pc' = "chars_done"
    /\ UNCHANGED <<self, labels, sentences, return_loss, predict_locals, result,
                   alone_lemma, wargs, char_dictionary, ctor_args>>

(***************************************************************************)
(* Specifications                                                          *)
(***************************************************************************)
\* the objects the constructor can leave, for dictionaries of the sizes vocab
\* and beam sizes up to beams
Models(vocab, beams) ==
    {m \in [beam_size : 1..beams,
            batching_in_rnn : BOOLEAN,
            dependent_on_input : BOOLEAN,
            max_sequence_length : 1..MaxSeqLen,
            use_attention : BOOLEAN,
            start_symbol : {TRUE},
            end_symbol : {FALSE},
            vocab_size : vocab,
            theta : Thetas,
            topk_ties : {"low", "high"}] :
        /\ m.dependent_on_input => m.max_sequence_length = MaxSeqLen
        /\ m.beam_size <= m.vocab_size}

NoArgs == [tokens |-> <<>>, end_symbol |-> FALSE, start_symbol |-> FALSE,
           padding_in_front |-> FALSE, seq_length |-> 0]

InitLocals ==
    /\ labels = [t \in Tokens |-> <<>>]
    /\ sentences = <<>>
    /\ return_loss = FALSE
    /\ max_length = 0
    /\ overall_loss = Zero
    /\ number_tokens_in_total = 0
    /\ target = <<>>
    /\ tok = 1
    /\ iter = 0
    /\ live = <<>>
    /\ final_candidates = <<>>
    /\ output_sequences = <<>>
    /\ result = [kind |-> "None", loss |-> Zero, count |-> 0]
    /\ alone_lemma = [t \in Tokens |-> <<>>]

\* after construction: the dictionary of the model, the arguments it got
Constructed ==
    /\ char_dictionary = DictionaryOfSize(self.vocab_size)
    /\ ctor_args = [char_dict |-> char_dictionary,
                    batching_in_rnn |-> self.batching_in_rnn]

\* one call of predict on a model whose beam fits the dictionary: beam_size
\* symbols exist that are not masked
Init ==
    /\ self \in {m \in Models({Len(Items)}, MaxBeam) :
                    m.beam_size <= m.vocab_size - 2}
    /\ pc = "idle"
    /\ InitLocals
    /\ wargs = NoArgs
    /\ tensor = <<>>
    /\ Constructed

Decoding ==
    \/ BatchFirstStep
    \/ BatchExpand
    \/ BatchFallback
    \/ BatchSelect
    \/ TokenFirstStep
    \/ TokenExpand
    \/ TokenFallback
    \/ TokenSelect
    \/ Return

Next ==
    \/ \E input \in Inputs, rl \in BOOLEAN : Predict(input, rl)
    \/ Decoding

Spec == Init /\ [][Next]_vars

\* call after call of predict, beam_size assigned in between
NextCalls ==
    \/ Next
    \/ Again
    \/ \E b \in 1..MaxBeam : SetBeamSize(b)

SpecCalls == Init /\ [][NextCalls]_vars

\* the first pass of predict for any dictionary and any beam_size that topk
\* accepts (beam_size <= len(char_dictionary))
InitFirst ==
    /\ self \in Models(VocabSizes, MaxBeamFirst)
    /\ pc = "idle"
    /\ InitLocals
    /\ wargs = NoArgs
    /\ tensor = <<>>
    /\ Constructed

NextFirst ==
    \/ \E input \in Inputs, rl \in BOOLEAN : Predict(input, rl)
    \/ BatchFirstStep
    \/ TokenFirstStep

SpecFirst == InitFirst /\ [][NextFirst]_vars

\* predict with max_length 1, for any dictionary and any beam_size that topk
\* accepts: the first pass, no iteration of the loop, the fallback
InitShort ==
    /\ self \in {m \in Models(VocabSizes, MaxBeamFirst) :
                    ~m.dependent_on_input /\ m.max_sequence_length = 1}
    /\ pc = "idle"
    /\ InitLocals
    /\ wargs = NoArgs
    /\ tensor = <<>>
    /\ Constructed

NextShort ==
    \/ \E input \in Inputs, rl \in BOOLEAN : Predict(input, rl)
    \/ BatchFirstStep
    \/ BatchFallback
    \/ BatchSelect
    \/ TokenFirstStep
    \/ TokenFallback
    \/ TokenSelect
    \/ Return

SpecShort == InitShort /\ [][NextShort]_vars

\* the strings of at most n letters
Words(n) == UNION {[1..k -> Letters] : k \in 0..n}

\* the argument lists of words_to_char_indices
WordLists == UNION {[1..k -> Words(MaxWordLen)] : k \in 1..MaxWords}

\* a model that is only asked for its dictionary
PlainModel(v) ==
    [beam_size |-> 1, batching_in_rnn |-> FALSE, dependent_on_input |-> FALSE,
     max_sequence_length |-> 1, use_attention |-> FALSE, start_symbol |-> TRUE,
     end_symbol |-> FALSE, vocab_size |-> v, theta |-> [h \in HiddenStates |-> 1],
     topk_ties |-> "low"]

\* one call of words_to_char_indices
InitChars ==
    /\ self \in {PlainModel(v) : v \in VocabSizes}
    /\ pc = "chars"
    /\ InitLocals
    /\ wargs \in [tokens : WordLists, end_symbol : BOOLEAN, start_symbol : BOOLEAN,
                  padding_in_front : BOOLEAN, seq_length : 0..MaxRowLen]
    /\ tensor = <<>>
    /\ Constructed

NextChars == WordsToCharIndices

SpecChars == InitChars /\ [][NextChars]_vars

(***************************************************************************)
(* encode: lines 234-277, the context states handed to attention.  An      *)
(* entry of all_encoder_outputs is "state" where it is an output of the    *)
(* encoder RNN and "zero" where it is zero.                                *)
(***************************************************************************)
\* lines 242-245: the length of each token with the inserted symbols
lengths(texts, me) ==
    [i \in 1..Len(texts) |->
        Len(texts[i]) + B2I(me.start_symbol) + B2I(me.end_symbol)]

\* pack_padded_sequence, encoder_rnn, pad_packed_sequence: the RNN runs over
\* the first lens[i] positions of row i, the other positions are zero
pad_packed_sequence(lens) ==
    [i \in 1..Len(lens) |->
        [k \in 1..MaxOf({lens[j] : j \in 1..Len(lens)}) |->
            IF k <= lens[i] THEN "state" ELSE "zero"]]

\* lines 275-277: torch.where(mask, 0, all_encoder_outputs)
all_encoder_outputs(encoder_input_indices, lens) ==
    [i \in 1..Len(lens) |->
        [k \in 1..Len(encoder_input_indices[i]) |->
            IF encoder_input_indices[i][k] = dummy_index THEN "zero"
            ELSE pad_packed_sequence(lens)[i][k]]]

\* encode on the tokens wargs.tokens; pack_padded_sequence raises for a
\* length of 0
Encode ==
    /\ pc = "encode"
    /\ IF \E i \in 1..Len(wargs.tokens) : lengths(wargs.tokens, self)[i] = 0
       THEN pc' = "RuntimeError" /\ UNCHANGED tensor
       ELSE \E indices \in {words_to_char_indices(
                               wargs.tokens, self.end_symbol, self.start_symbol,
                               self.padding_in_front_for_encoder, 0,
                               self.vocab_size)} :
               /\ tensor' = [encoder_input_indices |-> indices,
                             all_encoder_outputs |->
                                 all_encoder_outputs(indices,
                                                     lengths(wargs.tokens, self))]
               /\ pc' = "encoded"
    /\ UNCHANGED <<self, labels, sentences, return_loss, predict_locals, result,
                   alone_lemma, wargs, char_dictionary, ctor_args>>

\* a model that is only asked to encode
EncoderModel(v, start, end, front) ==
    [padding_in_front_for_encoder |-> front] @@
    [PlainModel(v) EXCEPT !.start_symbol = start, !.end_symbol = end]

InitEncode ==
    /\ self \in {EncoderModel(v, start, end, front) :
                    v \in VocabSizes, start \in BOOLEAN, end \in BOOLEAN,
                    front \in BOOLEAN}
    /\ pc = "encode"
    /\ InitLocals
    /\ wargs \in [tokens : WordLists, end_symbol : {FALSE}, start_symbol : {FALSE},
                  padding_in_front : {FALSE}, seq_length : {0}]
    /\ tensor = <<>>
    /\ Constructed

NextEncode == Encode

SpecEncode == InitEncode /\ [][NextEncode]_vars

(***************************************************************************)
(* Training: forward_pass (lines 181-202) and _calculate_loss (294-303)    *)
(* on the gold lemmas wargs.tokens                                         *)
(***************************************************************************)
\* the decoder input with the padding in front of the start symbol
decoder_input_padded_in_front(gold, vocab_size) ==
    words_to_char_indices(gold, FALSE, TRUE, TRUE, 0, vocab_size)

\* lines 195-196: the rows the decoder is fed
decoder_input_indices(gold, vocab_size) ==
    words_to_char_indices(gold, FALSE, TRUE, FALSE, 0, vocab_size)

\* line 299: the rows the loss compares the outputs with
loss_target(gold, vocab_size) ==
    words_to_char_indices(gold, TRUE, FALSE, FALSE, 0, vocab_size)

\* forward_loss: the forward pass and the loss of one batch
ForwardLoss ==
    /\ pc = "train"
    /\ tensor' = [decoder_input_indices |->
                      decoder_input_indices(wargs.tokens, self.vocab_size),
                  target |-> loss_target(wargs.tokens, self.vocab_size)]
    /\ pc' = "trained"
    /\ UNCHANGED <<self, labels, sentences, return_loss, predict_locals, result,
                   alone_lemma, wargs, char_dictionary, ctor_args>>

InitTrain ==
    /\ self \in {PlainModel(v) : v \in VocabSizes}
    /\ pc = "train"
    /\ InitLocals
    /\ wargs \in [tokens : WordLists, end_symbol : {FALSE}, start_symbol : {FALSE},
                  padding_in_front : {FALSE}, seq_length : {0}]
    /\ tensor = <<>>
    /\ Constructed

NextTrain == ForwardLoss

SpecTrain == InitTrain /\ [][NextTrain]_vars

(***************************************************************************)
(* The constructor: lines 84-94, the dictionary it is given                *)
(***************************************************************************)
\* the object before __init__ has assigned the indices
Unbuilt == [dummy_index |-> -1, start_index |-> -1, end_index |-> -1,
            vocab_size |-> 0]

\* the three special symbols appended before <unk> is looked for
ConstructAddsFirst ==
    /\ pc = "new"
    /\ \E d \in {add_items(char_dictionary, <<"<>", "<S>", "<E>">>)} :
          /\ char_dictionary' = d
          /\ IF ~d.add_unk
             THEN pc' = "KeyError" /\ UNCHANGED self
             ELSE /\ self' = [dummy_index |-> index_of_item(d, "<>"),
                              start_index |-> index_of_item(d, "<S>"),
                              end_index |-> index_of_item(d, "<E>"),
                              vocab_size |-> Len(d.idx2item)]
                  /\ pc' = "constructed"
    /\ UNCHANGED <<labels, sentences, return_loss, predict_locals, result,
                   alone_lemma, wargs, tensor, ctor_args>>

\* __init__ as far as the dictionary goes: KeyError without <unk>, else the
\* special symbols added and their indices kept
Construct ==
    /\ pc = "new"
    /\ IF ~char_dictionary.add_unk
       THEN pc' = "KeyError" /\ UNCHANGED <<self, char_dictionary>>
       ELSE \E d \in {add_items(char_dictionary, <<"<>", "<S>", "<E>">>)} :
               /\ char_dictionary' = d
               /\ self' = [dummy_index |-> index_of_item(d, "<>"),
                           start_index |-> index_of_item(d, "<S>"),
                           end_index |-> index_of_item(d, "<E>"),
                           vocab_size |-> Len(d.idx2item)]
               /\ pc' = "constructed"
    /\ UNCHANGED <<labels, sentences, return_loss, predict_locals, result,
                   alone_lemma, wargs, tensor, ctor_args>>

\* the items a caller may have added to a dictionary
DictPool == {"<>", "<S>", "<E>", "a"}

\* the sequences of at most n different elements of S
InjSeqs(S, n) ==
    {q \in UNION {[1..k -> S] : k \in 0..n} :
        \A i, j \in DOMAIN q : i # j => q[i] # q[j]}

\* the dictionaries handed to the constructor
Dictionaries ==
    {add_items(Dictionary(u), q) :
        u \in BOOLEAN, q \in InjSeqs(DictPool, MaxDictItems)}

InitCtor ==
    /\ char_dictionary \in Dictionaries
    /\ ctor_args = [char_dict |-> char_dictionary, batching_in_rnn |-> TRUE]
    /\ self = Unbuilt
    /\ pc = "new"
    /\ InitLocals
    /\ wargs = NoArgs
    /\ tensor = <<>>

NextCtor == Construct

SpecCtor == InitCtor /\ [][NextCtor]_vars

(***************************************************************************)
(* Properties                                                              *)
(***************************************************************************)
\* the tokens of the call
toks_now == TokensOf(sentences)

\* the rows of `live` that belong to token i of the call
LiveOf(i) ==
    IF pc = "batch_expand"
    THEN ((i - 1) * self.beam_size + 1)..(i * self.beam_size)
    ELSE 1..Len(live)

\* the token of the call that row p of `live` belongs to
TokenOfRow(p) ==
    IF pc = "batch_expand" THEN TokenNumber(p - 1, self.beam_size) + 1 ELSE tok

\* the number of rows of the encoder output in the present mode
RowsNow ==
    IF pc = "batch_expand"
    THEN EncoderRows([i \in 1..Len(toks_now) |-> TokenText[toks_now[i]]], self)
    ELSE EncoderRows(<<TokenText[toks_now[tok]]>>, self)

\* C1: batch-size invariance: the lemma predicted for a word inside a call
\* equals the lemma predicted for it, under the same setting, by a call
\* whose only word it was.
C1_BatchSizeInvariance ==
    pc = "returned" =>
        \A i \in 1..Len(toks_now) :
            alone_lemma[toks_now[i]] # <<>> =>
                labels[toks_now[i]] = alone_lemma[toks_now[i]]

\* greedy decoding: at every step the single most probable character that is
\* not masked, stopping at the end symbol or at maxlen characters
RECURSIVE GreedyFrom(_, _, _, _, _, _)
GreedyFrom(seq, input_index, hidden, rows, maxlen, me) ==
    IF Len(seq) >= maxlen THEN seq
    ELSE LET d == decode(input_index, hidden, rows, me)
             probs == out_probs(d.dist, me.vocab_size)
             best == topk(probs, 1, me.topk_ties)[1] - 1
         IN IF best = end_index THEN seq
            ELSE GreedyFrom(Append(seq, best), best, d.hid, rows, maxlen, me)

Greedy(t, maxlen, me) ==
    GreedyFrom(<<>>, start_index, EncodeWord(TokenText[t], me.vocab_size),
               EncoderRows(<<TokenText[t]>>, me), maxlen, me)

\* C2: degenerate beam: with beam_size = 1 the sequence selected for every
\* word is the one greedy decoding gives for the same distributions.
C2_DegenerateBeam ==
    (pc = "returned" /\ self.beam_size = 1 /\ result.kind # "sentences") =>
        \A i \in 1..Len(toks_now) :
            output_sequences[i].seq = Greedy(toks_now[i], max_length, self)

\* after decoding every word has a finalized hypothesis
C3_Finalized ==
    /\ pc = "batch_select" =>
          \A i \in DOMAIN final_candidates : Len(final_candidates[i]) >= 1
    /\ pc = "tok_select" => Len(final_candidates[tok]) >= 1

\* every word of a call that decoded has a lemma of at least one character
C3_Lemma ==
    (pc = "returned" /\ result.kind # "sentences") =>
        \A i \in 1..Len(toks_now) :
            /\ Len(labels[toks_now[i]]) >= 1
            /\ Len(Last(labels[toks_now[i]])) >= 1
            /\ \A k \in 1..Len(Last(labels[toks_now[i]])) :
                  Last(labels[toks_now[i]])[k] # ""

\* the step that ends the loop: a word without finalized hypothesis gets one,
\* made of a live hypothesis of highest score, that score over max_length
C3_Step ==
    (pc \in {"batch_expand", "tok_expand", "tok_break"}
       /\ pc' \in {"batch_select", "tok_select"}) =>
        \A i \in DOMAIN final_candidates :
            IF final_candidates[i] # <<>> \/ (pc # "batch_expand" /\ i # tok)
            THEN final_candidates'[i] = final_candidates[i]
            ELSE \E p \in LiveOf(i) :
                    /\ \A q \in LiveOf(i) : live[q].score <= live[p].score
                    /\ Len(final_candidates'[i]) = 1
                    /\ final_candidates'[i][1].seq = live[p].seq
                    /\ final_candidates'[i][1].score =
                          [num |-> live[p].score, den |-> max_length]

\* C3: after decoding every word has a non-empty finalized set and a lemma
\* of at least one character, for every max_length >= 1; a word for which
\* no end symbol was predicted gets one finalized hypothesis made of its
\* live hypothesis of highest cumulative log-probability, with that
\* log-probability divided by max_length as score, in both modes.
C3_Fallback == [](C3_Finalized /\ C3_Lemma) /\ [][C3_Step]_vars

\* a word whose only finalized hypothesis is the synthesized one: it has
\* max_length characters, more than any hypothesis an end symbol finalized
C3_FallbackTaken ==
    /\ pc = "batch_select"
    /\ max_length >= 2
    /\ \E i \in DOMAIN final_candidates :
          /\ Len(final_candidates[i]) = 1
          /\ Len(final_candidates[i][1].seq) = max_length

\* entry k of l has the highest score and is the first that has it
IsFirstBest(l, k) ==
    /\ \A m \in 1..Len(l) : ~RatLess(l[k].score, l[m].score)
    /\ \A m \in 1..(k - 1) : RatLess(l[m].score, l[k].score)

\* C4: the lemma of a word is decoded from its finalized hypothesis of
\* highest normalised score, the first finalized among those of that
\* score, in both modes.
C4_BestFinalized ==
    pc # "idle" =>
        \A i \in 1..Len(output_sequences) :
            \E k \in 1..Len(final_candidates[i]) :
                /\ IsFirstBest(final_candidates[i], k)
                /\ output_sequences[i] = final_candidates[i][k]
                /\ labels[toks_now[i]] =
                      <<PredictedLemma(final_candidates[i][k].seq)>>

\* a word was decided between two finalized hypotheses of the same, highest
\* score and of different sequences
C4_TieDecided ==
    \E i \in 1..Len(output_sequences) :
        \E k, m \in 1..Len(final_candidates[i]) :
            /\ k < m
            /\ IsFirstBest(final_candidates[i], k)
            /\ RatEq(final_candidates[i][k].score, final_candidates[i][m].score)
            /\ final_candidates[i][k].seq # final_candidates[i][m].seq

\* the pairs (row, candidate) of the present expansion that choose <E> for
\* token i
EndChoices(i) ==
    {pair \in (1..Len(live)) \X (1..self.beam_size) :
        /\ TokenOfRow(pair[1]) = i
        /\ Candidates(decode(Last(live[pair[1]].seq), live[pair[1]].hid,
                             RowsNow, self).dist, self)[pair[2]].index
             = end_index}

C5_Step ==
    (pc \in {"batch_expand", "tok_expand"} /\ iter < max_length) =>
        \A i \in DOMAIN final_candidates :
            /\ Len(final_candidates'[i]) =
                  Len(final_candidates[i]) + Cardinality(EndChoices(i))
            /\ \A pair \in EndChoices(i) :
                  \E n \in (Len(final_candidates[i]) + 1)..Len(final_candidates'[i]) :
                      /\ final_candidates'[i][n].seq = live[pair[1]].seq
                      /\ final_candidates'[i][n].score =
                            [num |-> live[pair[1]].score
                                     + Candidates(decode(Last(live[pair[1]].seq),
                                                         live[pair[1]].hid,
                                                         RowsNow, self).dist,
                                                  self)[pair[2]].logp,
                             den |-> Len(live[pair[1]].seq) + 1]

\* C5: whenever a candidate continuation of a live hypothesis chooses the
\* end symbol, a finalized hypothesis is recorded for the word, of the
\* parent's sequence and of score (parent's cumulative log-probability +
\* candidate's log-probability) / (length of the parent's sequence + 1),
\* in both modes.
C5_EndFinalizes == [][C5_Step]_vars

\* one iteration finalized two hypotheses of one word
C5_TwoFinalized ==
    /\ pc = "batch_expand"
    /\ iter = 2
    /\ \E i \in DOMAIN final_candidates : Len(final_candidates[i]) = 2

\* C6: the padding symbol and the start symbol are never selected: no live
\* and no finalized hypothesis has one of them in its sequence, for any
\* beam_size and any dictionary.
C6_NeverMasked ==
    /\ \A p \in 1..Len(live) : \A k \in 1..Len(live[p].seq) :
          live[p].seq[k] \notin {dummy_index, start_index}
    /\ \A i \in 1..Len(final_candidates) : \A n \in 1..Len(final_candidates[i]) :
          \A k \in 1..Len(final_candidates[i][n].seq) :
              final_candidates[i][n].seq[k] \notin {dummy_index, start_index}

\* the number of special symbols the call asks for
Inserted == B2I(wargs.end_symbol) + B2I(wargs.start_symbol)

\* the longest string of the call and its special symbols
Longest == MaxOf({Len(wargs.tokens[i]) : i \in 1..Len(wargs.tokens)}) + Inserted

\* C7: words_to_char_indices returns one row per string, of length
\* max(seq_length, longest string + inserted symbols), or of that longest
\* length when no seq_length is given; the cells that hold no character,
\* start or end symbol hold the padding index.
C7_RowLength ==
    pc = "chars_done" =>
        /\ Len(tensor) = Len(wargs.tokens)
        /\ \A i \in 1..Len(tensor) :
              /\ Len(tensor[i]) = IF wargs.seq_length = 0 THEN Longest
                                  ELSE Max2(wargs.seq_length, Longest)
              /\ Cardinality({k \in 1..Len(tensor[i]) : tensor[i][k] # dummy_index})
                    = Len(wargs.tokens[i]) + Inserted
              /\ Cardinality({k \in 1..Len(tensor[i]) : tensor[i][k] = dummy_index})
                    = Len(tensor[i]) - (Len(wargs.tokens[i]) + Inserted)

\* a call whose seq_length exceeds what its strings of different lengths need
C7_Padded ==
    /\ pc = "chars_done"
    /\ Len(wargs.tokens) = 2
    /\ Len(wargs.tokens[1]) # Len(wargs.tokens[2])
    /\ wargs.seq_length > Longest

\* n cells of padding
Padding(n) == [k \in 1..n |-> dummy_index]

\* C8: in every row the start symbol (if requested) is immediately before
\* the first character, the end symbol (if requested) immediately after the
\* last, the characters are contiguous and in order, and the padding is one
\* block, at the row end, or at the row front when padding_in_front.
C8_RowLayout ==
    pc = "chars_done" =>
        \A i \in 1..Len(tensor) :
            LET w == wargs.tokens[i]
                content == (IF wargs.start_symbol THEN <<start_index>> ELSE <<>>)
                           \o [k \in 1..Len(w) |->
                                  get_idx_for_item(w[k], self.vocab_size)]
                           \o (IF wargs.end_symbol THEN <<end_index>> ELSE <<>>)
                pad == Padding(Len(tensor[i]) - Len(content))
            IN /\ Len(tensor[i]) >= Len(content)
               /\ tensor[i] = IF wargs.padding_in_front THEN pad \o content
                              ELSE content \o pad

\* ["ab", "a"] with start and end symbol, padding at the back:
\* <S> a b <E> and <S> a <E> <>
C8_Example ==
    /\ pc = "chars_done"
    /\ wargs.tokens = << <<"a", "b">>, <<"a">> >>
    /\ wargs.start_symbol /\ wargs.end_symbol /\ ~wargs.padding_in_front
    /\ wargs.seq_length = 0
    /\ tensor = << <<2, 4, 5, 3>>, <<2, 4, 3, 1>> >>

\* C9: after any sequence of calls a token carries at most one label under
\* label_name, and every token of a non-empty sentence of the call that
\* returned carries exactly one, the lemma predicted last.
C9_OneLabel ==
    /\ \A t \in Tokens : Len(labels[t]) <= 1
    /\ (pc = "returned" /\ result.kind # "sentences") =>
          \A i \in 1..Len(toks_now) :
              labels[toks_now[i]] = <<PredictedLemma(output_sequences[i].seq)>>
    /\ (pc = "returned" /\ result.kind = "sentences") => toks_now = <<>>

\* a call of two words returned, the first of which an earlier call had
\* predicted alone
C9_PredictedAgain ==
    /\ pc = "returned"
    /\ Len(toks_now) = 2
    /\ alone_lemma[toks_now[1]] # <<>>

\* C10: a call with return_loss returns a pair: the sum of the losses of
\* the selected hypotheses and the number of tokens of the non-empty
\* sentences, also when all sentences are empty.
C10_ReturnsPair ==
    (pc = "returned" /\ return_loss) =>
        /\ result.kind = "pair"
        /\ result.count = Len(toks_now)
        /\ RatEq(result.loss, LossSum(output_sequences))

\* the special symbols of the constructor
Specials == {"<>", "<S>", "<E>"}

\* the number of positions of d that hold item
Occurrences(d, item) ==
    Cardinality({i \in 1..Len(d.idx2item) : d.idx2item[i] = item})

\* C11: construction with a dictionary without the unknown symbol fails,
\* and the dictionary is then as it was handed over; with the unknown
\* symbol, construction appends the padding, start and end symbol only if
\* absent and records three pairwise distinct indices for them.
C11_Construction ==
    /\ pc = "KeyError" =>
          /\ ~ctor_args.char_dict.add_unk
          /\ char_dictionary = ctor_args.char_dict
    /\ pc = "constructed" =>
          /\ ctor_args.char_dict.add_unk
          /\ Len(char_dictionary.idx2item) >= Len(ctor_args.char_dict.idx2item)
          /\ SubSeq(char_dictionary.idx2item, 1, Len(ctor_args.char_dict.idx2item))
                = ctor_args.char_dict.idx2item
          /\ \A i \in (Len(ctor_args.char_dict.idx2item) + 1)
                        ..Len(char_dictionary.idx2item) :
                /\ char_dictionary.idx2item[i] \in Specials
                /\ ~has_item(ctor_args.char_dict, char_dictionary.idx2item[i])
          /\ \A item \in Specials : Occurrences(char_dictionary, item) = 1
          /\ char_dictionary.idx2item[self.dummy_index + 1] = "<>"
          /\ char_dictionary.idx2item[self.start_index + 1] = "<S>"
          /\ char_dictionary.idx2item[self.end_index + 1] = "<E>"
          /\ Cardinality({self.dummy_index, self.start_index, self.end_index}) = 3

\* a dictionary that came with the start symbol and without the padding
\* symbol was completed
C11_Completed ==
    /\ pc = "constructed"
    /\ has_item(ctor_args.char_dict, "<S>")
    /\ ~has_item(ctor_args.char_dict, "<>")

\* C12: on a model constructed with batching enabled, over any sequence of
\* predict calls and beam_size assignments, a call with beam_size 1 decodes
\* token by token and a call with beam_size at least 2 decodes all words
\* together.
C12_PathFollowsBeam ==
    (ctor_args.batching_in_rnn /\ pc \in {"batch_first", "tok_first"}) =>
        /\ self.beam_size = 1 => pc = "tok_first"
        /\ self.beam_size >= 2 => pc = "batch_first"

\* the rows of `live` that hold the live hypotheses of token i of the call,
\* in the mode the call decodes in
LiveRows(i) ==
    IF self.batching_in_rnn
    THEN {p \in 1..Len(live) : TokenNumber(p - 1, self.beam_size) + 1 = i}
    ELSE IF i = tok THEN 1..Len(live) ELSE {}

\* C13: a word has at most beam_size live hypotheses at all times, and
\* right after the first step it has exactly beam_size of them, with
\* beam_size different first characters, in both modes.
C13_BeamWidth ==
    /\ \A i \in 1..Len(toks_now) : Cardinality(LiveRows(i)) <= self.beam_size
    /\ (pc \in {"batch_expand", "tok_expand"} /\ iter = 1) =>
          \A i \in 1..Len(toks_now) :
              (self.batching_in_rnn \/ i = tok) =>
                  /\ Cardinality(LiveRows(i)) = self.beam_size
                  /\ \A p \in LiveRows(i) : Len(live[p].seq) = 1
                  /\ Cardinality({live[p].seq[1] : p \in LiveRows(i)})
                        = self.beam_size

\* token by token, an iteration after the first step left a full beam of two
C13_FullBeam ==
    /\ pc = "tok_expand"
    /\ iter = 2
    /\ self.beam_size = 2
    /\ Cardinality(LiveRows(tok)) = 2

\* the batched loop has run max_length - 1 times when it is left, and no
\* live and no finalized hypothesis has more than max_length characters
HardCap ==
    /\ pc = "batch_select" => iter = max_length
    /\ pc \notin {"idle", "batch_first"} =>
          /\ \A p \in 1..Len(live) : Len(live[p].seq) <= max_length
          /\ \A i \in 1..Len(final_candidates) :
                \A n \in 1..Len(final_candidates[i]) :
                    Len(final_candidates[i][n].seq) <= max_length

\* C14 as stated: max_length is a hard cap (the batched loop runs exactly
\* max_length - 1 iterations for all words together, no hypothesis has more
\* than max_length characters), and a word that has a finalized hypothesis
\* has no live hypothesis left for the later iterations to expand.
C14_NoLiveAfterFinal ==
    /\ HardCap
    /\ (pc \in {"batch_expand", "tok_expand"} /\ iter < max_length) =>
          \A i \in 1..Len(final_candidates) :
              (self.batching_in_rnn \/ i = tok) =>
                  (final_candidates[i] # <<>> => LiveRows(i) = {})

\* C14, amended: max_length is a hard cap (the batched loop runs exactly
\* max_length - 1 iterations for all words together, no hypothesis has more
\* than max_length characters), and every iteration expands the live
\* hypotheses of every word, also of a word that has a finalized
\* hypothesis: in iteration j the live hypotheses of a word all have j
\* characters, and in batched mode there are beam_size of them.
C14_HardCap ==
    /\ HardCap
    /\ pc \in {"batch_expand", "tok_expand"} =>
          \A i \in 1..Len(final_candidates) :
              (self.batching_in_rnn \/ i = tok) =>
                  /\ \A p \in LiveRows(i) : Len(live[p].seq) = iter
                  /\ self.batching_in_rnn =>
                        Cardinality(LiveRows(i)) = self.beam_size

\* a word whose first hypothesis was finalized in the first iteration has
\* live hypotheses that the second iteration expanded
C14_ExpandedAfterFinal ==
    /\ pc = "batch_expand"
    /\ iter = 3
    /\ \E i \in 1..Len(final_candidates) :
          /\ \E n \in 1..Len(final_candidates[i]) :
                Len(final_candidates[i][n].seq) = 1
          /\ \A p \in LiveRows(i) : Len(live[p].seq) = 3

\* C15: the score of every finalized hypothesis is at most 0, for every
\* beam_size and every dictionary.
C15_ScoreAtMostZero ==
    \A i \in 1..Len(final_candidates) :
        \A n \in 1..Len(final_candidates[i]) :
            /\ final_candidates[i][n].score.num # NaN
            /\ final_candidates[i][n].score.num <= 0

\* candidate c of the present expansion of row p of `live`
CandidateOf(p, c) ==
    Candidates(decode(Last(live[p].seq), live[p].hid, RowsNow, self).dist,
               self)[c]

\* the pairs (row, candidate) of token i whose candidate is not <E>
NonEndChoices(i) ==
    {pair \in LiveRows(i) \X (1..self.beam_size) :
        CandidateOf(pair[1], pair[2]).index # end_index}

\* the hypothesis that the choice pair = (row, candidate) leads to: the
\* sequence of the parent and the character, the state the expansion of the
\* parent gave, the sum of the log-probabilities
Extended(pair) ==
    [seq |-> Append(live[pair[1]].seq, CandidateOf(pair[1], pair[2]).index),
     hid |-> decode(Last(live[pair[1]].seq), live[pair[1]].hid, RowsNow,
                    self).hid,
     score |-> Add(live[pair[1]].score, CandidateOf(pair[1], pair[2]).logp)]

\* a hypothesis without its loss
Bare(h) == [seq |-> h.seq, hid |-> h.hid, score |-> h.score]

\* the live hypotheses of token i after the step
NextLive(i) == {Bare(live'[q]) : q \in LiveRows(i)'}

C16_Step ==
    (pc \in {"batch_expand", "tok_expand"} /\ iter < max_length /\ pc' = pc) =>
        \A i \in 1..Len(toks_now) :
            (self.batching_in_rnn \/ i = tok) =>
                /\ NextLive(i) \subseteq {Extended(pair) : pair \in NonEndChoices(i)}
                /\ Cardinality(NextLive(i)) = Cardinality(LiveRows(i)')
                /\ Cardinality(NextLive(i)) =
                      IF Cardinality(NonEndChoices(i)) < self.beam_size
                      THEN Cardinality(NonEndChoices(i)) ELSE self.beam_size
                /\ \A pair \in NonEndChoices(i) :
                      Extended(pair) \notin NextLive(i) =>
                          \A h \in NextLive(i) : Extended(pair).score <= h.score

\* C16: the live hypotheses of a word after an expansion are the beam_size
\* candidates of highest cumulative log-probability among the candidates
\* of all its live hypotheses that do not end the word, each with the
\* sequence of its parent extended by the character and the state that the
\* expansion of that parent gave, in both modes.
C16_GlobalTopK == [][C16_Step]_vars

\* batched, both live hypotheses of a word continue the same parent
C16_SameParent ==
    /\ pc = "batch_expand"
    /\ iter = 2
    /\ self.beam_size = 2
    /\ \E i \in 1..Len(toks_now) :
          \A p, q \in LiveRows(i) : live[p].seq[1] = live[q].seq[1]

Block(i) == ((i - 1) * self.beam_size + 1)..(i * self.beam_size)

C18_Step ==
    (pc = "batch_expand" /\ iter < max_length) =>
        \A i \in 1..Len(toks_now) :
            /\ \A q \in Block(i) :
                  \E parent \in Block(i), c \in 1..self.beam_size :
                      Bare(live'[q]) = Extended(<<parent, c>>)
            /\ Len(final_candidates'[i]) >= Len(final_candidates[i])
            /\ SubSeq(final_candidates'[i], 1, Len(final_candidates[i]))
                  = final_candidates[i]
            /\ \A n \in (Len(final_candidates[i]) + 1)..Len(final_candidates'[i]) :
                  \E parent \in Block(i), c \in 1..self.beam_size :
                      /\ CandidateOf(parent, c).index = end_index
                      /\ final_candidates'[i][n].seq = live[parent].seq
                      /\ final_candidates'[i][n].score.num =
                            Add(live[parent].score, CandidateOf(parent, c).logp)

\* C18: the index arithmetic of the batched mode keeps the words apart:
\* the hypothesis at row i * beam_size + k after an iteration continues a
\* parent of the rows i * beam_size .. (i + 1) * beam_size - 1, and a
\* hypothesis set aside is appended only to the finalized hypotheses of
\* the word its parent belongs to.
C18_WordsApart == [][C18_Step]_vars

\* two words are decoded together, the second iteration is done and the
\* live hypotheses of the two words are not the same
C18_TwoBlocks ==
    /\ pc = "batch_expand"
    /\ iter = 2
    /\ Len(toks_now) = 2
    /\ {Bare(live[p]) : p \in Block(1)} # {Bare(live[p]) : p \in Block(2)}

\* C19: the encoder zeroes exactly the context positions beyond the true
\* length of each word: for every word of a batch and for both padding
\* policies, the positions of its row of all_encoder_outputs that are zero
\* are the positions at or after len(text) + the number of inserted start
\* and end symbols.
C19_ZeroBeyondLength ==
    pc = "encoded" =>
        \A i \in 1..Len(wargs.tokens) :
            {k \in 1..Len(tensor.all_encoder_outputs[i]) :
                tensor.all_encoder_outputs[i][k] = "zero"}
              = {k \in 1..Len(tensor.all_encoder_outputs[i]) :
                    k - 1 >= lengths(wargs.tokens, self)[i]}

\* C20: training is teacher-forced with aligned inputs and targets: for
\* every gold lemma g of a batch the decoder input row is <S> g followed by
\* padding and the target row is g <E> followed by padding, the rows of
\* both matrices have the same length, position 0 of the input is the
\* start symbol, and the input at position t + 1 is the target at position
\* t for every t < len(g).
C20_TeacherForcing ==
    pc = "trained" =>
        \A i \in 1..Len(wargs.tokens) :
            /\ Len(tensor.decoder_input_indices[i]) =
                  MaxOf({Len(wargs.tokens[j]) : j \in 1..Len(wargs.tokens)}) + 1
            /\ Len(tensor.target[i]) = Len(tensor.decoder_input_indices[i])
            /\ tensor.decoder_input_indices[i][1] = start_index
            /\ \A t \in 1..Len(wargs.tokens[i]) :
                  /\ tensor.target[i][t] =
                        get_idx_for_item(wargs.tokens[i][t], self.vocab_size)
                  /\ tensor.decoder_input_indices[i][t + 1] = tensor.target[i][t]
            /\ tensor.target[i][Len(wargs.tokens[i]) + 1] = end_index
            /\ \A k \in (Len(wargs.tokens[i]) + 2)..Len(tensor.target[i]) :
                  /\ tensor.decoder_input_indices[i][k] = dummy_index
                  /\ tensor.target[i][k] = dummy_index

\* a batch of two gold lemmas of different length went through: the row of
\* the shorter one is padded
C20_PaddedBatch ==
    /\ pc = "trained"
    /\ Len(wargs.tokens) = 2
    /\ Len(wargs.tokens[1]) = 1
    /\ Len(wargs.tokens[2]) = 2
    /\ self.vocab_size = Len(Items)

\* the pairs (row of target, token) of the words that are being decoded
TargetRows ==
    IF pc \in {"batch_expand", "batch_select"}
    THEN {<<i, toks_now[i]>> : i \in 1..Len(toks_now)}
    ELSE IF pc \in {"tok_expand", "tok_break", "tok_select"}
    THEN {<<1, toks_now[tok]>>}
    ELSE {}

\* C21: when predict is asked for the loss and a token has no gold lemma,
\* the text of the token is the target string of that token, and the
\* target matrix has at least max_length columns, so that the column of the
\* target that a decoding step reads exists.
C21_TextAsTarget ==
    return_loss =>
        \A rt \in TargetRows :
            /\ Len(target) >= rt[1]
            /\ Len(target[rt[1]]) >= max_length
            /\ (pc \in {"batch_expand", "tok_expand"} /\ iter < max_length) =>
                  iter + 1 \in DOMAIN target[rt[1]]
            /\ TokenGold[rt[2]] = <<>> =>
                  /\ \A k \in 1..Len(TokenText[rt[2]]) :
                        target[rt[1]][k] =
                           get_idx_for_item(TokenText[rt[2]][k], self.vocab_size)
                  /\ target[rt[1]][Len(TokenText[rt[2]]) + 1] = end_index

\* the loss was asked for, a word without gold lemma is decoded together
\* with another word and an iteration has read its target
C21_NoGoldDecoded ==
    /\ return_loss
    /\ pc = "batch_expand"
    /\ iter = 2
    /\ Len(toks_now) = 2
    /\ \E i \in 1..Len(toks_now) : TokenGold[toks_now[i]] = <<>>

\* the words whose hypotheses the present step works on
WordsInStep ==
    IF self.batching_in_rnn THEN 1..Len(final_candidates) ELSE {tok}

C22_Step ==
    /\ pc' \in {"batch_expand", "tok_expand"} =>
          \A p \in 1..Len(live') : Len(live'[p].seq) = iter'
    /\ (pc \in {"batch_expand", "tok_expand"} /\ iter < max_length) =>
          \A i \in WordsInStep :
              \A n \in (Len(final_candidates[i]) + 1)..Len(final_candidates'[i]) :
                  /\ Len(final_candidates'[i][n].seq) = iter
                  /\ final_candidates'[i][n].score.den = iter + 1
    /\ (pc \in {"batch_expand", "tok_expand", "tok_break"}
          /\ pc' \in {"batch_select", "tok_select"}) =>
          \A i \in WordsInStep :
              final_candidates[i] = <<>> =>
                  /\ Len(final_candidates'[i]) = 1
                  /\ Len(final_candidates'[i][1].seq) = max_length
                  /\ final_candidates'[i][1].score.den = max_length

\* C22: after the first step every live hypothesis has 1 character and
\* after iteration j of the expansion it has j + 1 characters; a
\* hypothesis that an end symbol finalized in iteration j stores j
\* characters and is divided by j + 1; a hypothesis that the fallback
\* finalized stores max_length characters and is divided by max_length.
C22_Lengths == [][C22_Step]_vars

\* token by token, a word got a finalized hypothesis of one character in
\* the first iteration and one of two characters in the second
C22_TwoLengths ==
    /\ pc = "tok_select"
    /\ max_length = 3
    /\ \E n, m \in 1..Len(final_candidates[tok]) :
          /\ Len(final_candidates[tok][n].seq) = 1
          /\ Len(final_candidates[tok][m].seq) = 2

\* C23: the sequence stored for a finalized hypothesis, and so every
\* predicted lemma, never contains the end symbol, whatever distribution
\* the decoder produces at the first step or later.
C23_EndNeverStored ==
    /\ \A i \in 1..Len(final_candidates) :
          \A n \in 1..Len(final_candidates[i]) :
              \A k \in 1..Len(final_candidates[i][n].seq) :
                  final_candidates[i][n].seq[k] # end_index
    /\ \A t \in Tokens :
          \A n \in 1..Len(labels[t]) :
              \A k \in 1..Len(labels[t][n]) : labels[t][n][k] # "<E>"

====
